---- MODULE Spec2Model ----
(***************************************************************************)
(* LaTeX rendering plugin of the editor (CodeMirror view plugin).          *)
(*                                                                         *)
(* The repository holds two versions of the plugin.  Both share the        *)
(* widgets and createLatexDecorations; they differ in the drag handling:   *)
(*   "dom"      src/web/cm_plugins/latex.ts  listeners on view.dom,        *)
(*              handleDragEnd with one cancellable 200 ms timer,           *)
(*              mouseleave handler, no destroy();                          *)
(*   "document" src/unnamed/part_000         listeners on document,        *)
(*              one 50 ms timer per release, destroy() removes them.       *)
(* The variable `variant` says which of the two a behaviour runs.          *)
(*                                                                         *)
(* Offsets are 0-based character offsets as in the source; a document is a *)
(* sequence of one-character strings, so offset k is element k+1.          *)
(***************************************************************************)
EXTENDS Integers, Sequences, FiniteSets, TLC

(***************************************************************************)
(* Bounds of the model.                                                    *)
(***************************************************************************)
DocLen == 4          \* length of the documents of SpecBuild
TextLen == 6         \* length of the documents of SpecText
MaxNodes == 2        \* formula nodes in a syntax tree
MaxVisibleRanges == 2
MaxSelRanges == 2
MaxTimers == 2       \* pending timers (the document variant never cancels)
MaxEdits == 2        \* insertions into the document of SpecWidgets

Chars == {"$", "x", "\n"}
NodeNames == {"InlineLatex", "DisplayLatex"}

Min(a, b) == IF a <= b THEN a ELSE b
Max(a, b) == IF a >= b THEN a ELSE b

(***************************************************************************)
(* Host interfaces read by createLatexDecorations.                         *)
(***************************************************************************)
\* Text.sliceString(from, to): the characters at offsets from..to-1, both
\* ends clipped to the document.
sliceString(doc, from, to) ==
  LET f == Max(0, Min(Len(doc), from))
      t == Max(f, Min(Len(doc), to))
  IN  SubSeq(doc, f + 1, t)

\* SelectionRange.from / .to
RangeFrom(r) == Min(r.anchor, r.head)
RangeTo(r) == Max(r.anchor, r.head)

\* A variant of Tree.iterate that enters every node of the tree.
iterateWholeTree(tree, from, to) == tree

\* Tree.iterate({from, to, enter}): the nodes that touch [from, to], in
\* document order.
iterate(tree, from, to) ==
  SelectSeq(tree, LAMBDA n : n.from <= to /\ n.to >= from)

(***************************************************************************)
(* createLatexDecorations                                                  *)
(***************************************************************************)
\* A variant of isNodeInSelection that counts a range touching the node.
isNodeInSelectionTouching(selections, nodeFrom, nodeTo) ==
  \E i \in 1..Len(selections) :
     RangeFrom(selections[i]) <= nodeTo /\ RangeTo(selections[i]) >= nodeFrom

\* A variant of isNodeInSelection that looks at the first range only.
isNodeInSelectionFirstOnly(selections, nodeFrom, nodeTo) ==
  RangeFrom(selections[1]) < nodeTo /\ RangeTo(selections[1]) > nodeFrom

\* A variant of isCursorInside that is exclusive at the end of the node.
isCursorInsideExclusive(cursorPos, nodeFrom, nodeTo) ==
  cursorPos >= nodeFrom /\ cursorPos < nodeTo

\* isNodeInSelection: some selection range overlaps the node.
isNodeInSelection(selections, nodeFrom, nodeTo) ==
  \E i \in 1..Len(selections) :
     RangeFrom(selections[i]) < nodeTo /\ RangeTo(selections[i]) > nodeFrom

isCursorInside(cursorPos, nodeFrom, nodeTo) ==
  cursorPos >= nodeFrom /\ cursorPos <= nodeTo

\* The "." of a pattern without the s flag: any character but a newline.
DotMatchesNoNewline(c) == c # "\n"

\* The "." of the pattern, which has the s flag: any character.
DotMatches(c) == TRUE

\* /^\$\$(.*?)\$\$$/s.exec(text): the lengths k of group 1 the lazy search
\* tries in increasing order; k is possible when the text starts with $$,
\* the next k characters match ".", and exactly $$ follows up to the end.
MatchLengths(text) ==
  { k \in 0..Len(text) :
      /\ Len(text) >= 2 /\ text[1] = "$" /\ text[2] = "$"
      /\ 2 + k + 2 = Len(text)
      /\ \A j \in 3..(2 + k) : DotMatches(text[j])
      /\ text[2 + k + 1] = "$" /\ text[2 + k + 2] = "$" }

DisplayMatches(text) == MatchLengths(text) # {}

\* match[1]
DisplayGroup(text) ==
  LET k == CHOOSE m \in MatchLengths(text) : \A n \in MatchLengths(text) : m <= n
  IN  SubSeq(text, 3, 2 + k)

\* A variant of the display widget that records the offset before the one
\* it is given.
DisplayLatexWidgetShifted(formula, pos) ==
  [kind |-> "display", formula |-> formula, pos |-> pos - 1]

InlineLatexWidget(formula, pos) ==
  [kind |-> "inline", formula |-> formula, pos |-> pos]

DisplayLatexWidget(formula, pos) ==
  [kind |-> "display", formula |-> formula, pos |-> pos]

DecoRange(from, to, widget) == [from |-> from, to |-> to, widget |-> widget]

\* A variant of the enter callback that decorates a display node without
\* matching its text against the pattern.
enterUnmatched(doc, selection, node) ==
  LET nodeFrom == node.from
      nodeTo == node.to
      cursorPos == selection.ranges[selection.mainIndex].head
      live == \/ isCursorInside(cursorPos, nodeFrom, nodeTo)
              \/ isNodeInSelection(selection.ranges, nodeFrom, nodeTo)
  IN  IF live THEN << >>
      ELSE IF node.name = "InlineLatex"
      THEN << DecoRange(nodeFrom, nodeTo,
                InlineLatexWidget(sliceString(doc, nodeFrom + 1, nodeTo - 1),
                                  nodeFrom + 1)) >>
      ELSE << DecoRange(nodeFrom, nodeTo,
                DisplayLatexWidget(sliceString(doc, nodeFrom + 2, nodeTo - 2),
                                   nodeFrom + 2)) >>

\* The body of the enter callback: what one visit of a node pushes.
enter(doc, selection, node) ==
  LET nodeFrom == node.from
      nodeTo == node.to
      cursorPos == selection.ranges[selection.mainIndex].head
      live == \/ isCursorInside(cursorPos, nodeFrom, nodeTo)
              \/ isNodeInSelection(selection.ranges, nodeFrom, nodeTo)
      text == sliceString(doc, nodeFrom, nodeTo)
  IN  IF node.name = "InlineLatex"
      THEN IF ~live
           THEN << DecoRange(nodeFrom, nodeTo,
                     InlineLatexWidget(sliceString(doc, nodeFrom + 1, nodeTo - 1),
                                       nodeFrom + 1)) >>
           ELSE << >>
      ELSE IF node.name = "DisplayLatex"
      THEN IF ~live /\ DisplayMatches(text)
           THEN << DecoRange(nodeFrom, nodeTo,
                     DisplayLatexWidget(DisplayGroup(text), nodeFrom + 2)) >>
           ELSE << >>
      ELSE << >>

RECURSIVE VisitNodes(_, _, _)
VisitNodes(doc, selection, nodes) ==
  IF nodes = << >> THEN << >>
  ELSE enter(doc, selection, Head(nodes)) \o VisitNodes(doc, selection, Tail(nodes))

\* The loop over view.visibleRanges: the widgets array in push order.
RECURSIVE VisitRanges(_, _, _, _)
VisitRanges(doc, tree, selection, ranges) ==
  IF ranges = << >> THEN << >>
  ELSE VisitNodes(doc, selection, iterate(tree, Head(ranges).from, Head(ranges).to))
         \o VisitRanges(doc, tree, selection, Tail(ranges))

\* Decoration.set(widgets, true): sorted by from, equal ranges kept, in a
\* stable order (both widgets have the same start side).
RECURSIVE InsertSorted(_, _)
InsertSorted(sorted, d) ==
  IF sorted = << >> THEN << d >>
  ELSE IF Head(sorted).from <= d.from
       THEN << Head(sorted) >> \o InsertSorted(Tail(sorted), d)
       ELSE << d >> \o sorted

RECURSIVE DecorationSet(_)
DecorationSet(widgets) ==
  IF widgets = << >> THEN << >>
  ELSE InsertSorted(DecorationSet(SubSeq(widgets, 1, Len(widgets) - 1)),
                    widgets[Len(widgets)])

createLatexDecorations(state, ranges) ==
  DecorationSet(VisitRanges(state.doc, state.tree, state.selection, ranges))

(***************************************************************************)
(* The widgets: eq, toDOM and the click listener toDOM installs.           *)
(*                                                                         *)
(* A DOM element is a record of its tag, its classes and its children; a   *)
(* child is a text node, the output of the typesetting library, or an      *)
(* element.  A string is the sequence of its characters.                   *)
(***************************************************************************)
Element(tag, classes, children) ==
  [tag |-> tag, classes |-> classes, children |-> children]

TextNode(text) == [text |-> text]

\* What katex.render leaves in its target: the typeset formula, or a part of
\* it when it throws halfway.
KatexNode(formula, displayMode, complete) ==
  [katex |-> formula, displayMode |-> displayMode, complete |-> complete]

Outcomes == {"ok", "throws", "throwsPartial"}

\* katex.render(formula, target, {displayMode, throwOnError: false, ...}):
\* the children of the target afterwards, and whether the call threw.
katexRender(outcome, formula, target, displayMode) ==
  IF outcome = "ok"
  THEN [children |-> << KatexNode(formula, displayMode, TRUE) >>, threw |-> FALSE]
  ELSE IF outcome = "throws"
  THEN [children |-> target, threw |-> TRUE]
  ELSE [children |-> Append(target, KatexNode(formula, displayMode, FALSE)),
        threw |-> TRUE]

\* element.textContent = text: every child is replaced by one text node.
SetTextContent(element, text) ==
  [element EXCEPT !.children = << TextNode(text) >>]

\* element.classList.add(name)
ClassListAdd(element, name) ==
  [element EXCEPT !.classes = @ \cup {name}]

\* element.appendChild(child)
AppendChild(element, child) ==
  [element EXCEPT !.children = Append(@, child)]

\* A variant of eq that also compares the recorded positions.
eqWithPos(this, other) ==
  other.formula = this.formula /\ other.pos = this.pos

\* InlineLatexWidget.eq / DisplayLatexWidget.eq
eq(this, other) == other.formula = this.formula

\* WidgetType.compare: the same object, or the same class and eq.
compare(this, other) ==
  this = other \/ (this.kind = other.kind /\ eq(this, other))

\* A variant of InlineLatexWidget.toDOM whose catch block appends the raw
\* text to what the library left in the wrapper.
InlineToDOMAppending(this, outcome) ==
  LET wrapper == Element("span", {"sb-latex-inline"}, << >>)
      r == katexRender(outcome, this.formula, wrapper.children, FALSE)
      after == [wrapper EXCEPT !.children = r.children]
  IN  [returned |-> TRUE,
       dom |-> IF r.threw
               THEN ClassListAdd(AppendChild(after,
                                   TextNode(<< "$" >> \o this.formula \o << "$" >>)),
                                 "sb-latex-error")
               ELSE after]

\* InlineLatexWidget.toDOM(): the library renders into the wrapper itself.
\* The result says whether toDOM returned (an exception did not escape) and
\* the element returned; the click listener of the element closes over this.
InlineToDOM(this, outcome) ==
  LET wrapper == Element("span", {"sb-latex-inline"}, << >>)
      r == katexRender(outcome, this.formula, wrapper.children, FALSE)
      after == [wrapper EXCEPT !.children = r.children]
  IN  [returned |-> TRUE,
       dom |-> IF r.threw
               THEN ClassListAdd(
                      SetTextContent(after, << "$" >> \o this.formula \o << "$" >>),
                      "sb-latex-error")
               ELSE after]

\* DisplayLatexWidget.toDOM(): the library renders into a div of its own,
\* which is appended to the wrapper after the call returned.
DisplayToDOM(this, outcome) ==
  LET wrapper == Element("div", {"sb-latex-display"}, << >>)
      katexOutput == Element("div", {"sb-latex-katex-output"}, << >>)
      r == katexRender(outcome, this.formula, katexOutput.children, TRUE)
  IN  [returned |-> TRUE,
       dom |-> IF r.threw
               THEN ClassListAdd(
                      SetTextContent(wrapper,
                        << "$", "$" >> \o this.formula \o << "$", "$" >>),
                      "sb-latex-error")
               ELSE AppendChild(wrapper,
                                [katexOutput EXCEPT !.children = r.children])]

toDOM(this, outcome) ==
  IF this.kind = "inline" THEN InlineToDOM(this, outcome)
  ELSE DisplayToDOM(this, outcome)

\* A DOM click event, not yet handled, with at most one modifier key held.
MouseEvents ==
  { e \in [metaKey : BOOLEAN, ctrlKey : BOOLEAN, altKey : BOOLEAN,
           defaultPrevented : {FALSE}, propagationStopped : {FALSE}] :
      Cardinality({ k \in {"metaKey", "ctrlKey", "altKey"} : e[k] }) <= 1 }

\* A variant of the click listener that passes the control key for the
\* meta key.
onClickCtrlForMeta(this, dispatchClickEvent, page, e) ==
  [event |-> [e EXCEPT !.defaultPrevented = TRUE, !.propagationStopped = TRUE],
   dispatched |->
     IF dispatchClickEvent
     THEN << [pos |-> this.pos, page |-> page, metaKey |-> e.ctrlKey,
              ctrlKey |-> e.ctrlKey, altKey |-> e.altKey] >>
     ELSE << >>]

\* The click listener of both widgets: e.preventDefault(),
\* e.stopPropagation(), and client.dispatchClickEvent({...}) when the client
\* has the method.  The result is the event afterwards and what the client
\* was sent.
onClick(this, dispatchClickEvent, page, e) ==
  [event |-> [e EXCEPT !.defaultPrevented = TRUE, !.propagationStopped = TRUE],
   dispatched |->
     IF dispatchClickEvent
     THEN << [pos |-> this.pos, page |-> page, metaKey |-> e.metaKey,
              ctrlKey |-> e.ctrlKey, altKey |-> e.altKey] >>
     ELSE << >>]

(***************************************************************************)
(* Inputs of the host: documents, syntax trees, visible ranges, selections.*)
(***************************************************************************)
Pos == 0..DocLen

NodesIn(n) == { [name |-> nm, from |-> f, to |-> t] :
                  nm \in NodeNames, f \in 0..n, t \in 0..n }

\* Formula nodes of a well-formed tree: non-empty, in document order, not
\* overlapping.
IsTree(tree) ==
  /\ \A i \in 1..Len(tree) : tree[i].from < tree[i].to
  /\ \A i \in 1..(Len(tree) - 1) : tree[i].to <= tree[i + 1].from

TreesIn(n, most) ==
  UNION { { tree \in [1..k -> NodesIn(n)] : IsTree(tree) } : k \in 0..most }

Trees == TreesIn(DocLen, MaxNodes)

Spans == { [from |-> f, to |-> t] : f \in Pos, t \in Pos }

\* view.visibleRanges: non-empty ranges in order, with a hidden gap between
\* two neighbours.
IsVisibleRanges(ranges) ==
  /\ \A i \in 1..Len(ranges) : ranges[i].from < ranges[i].to
  /\ \A i \in 1..(Len(ranges) - 1) : ranges[i].to < ranges[i + 1].from

VisibleRangeSets ==
  UNION { { r \in [1..k -> Spans] : IsVisibleRanges(r) } : k \in 1..MaxVisibleRanges }

SelRanges == { [anchor |-> a, head |-> h] : a \in Pos, h \in Pos }

\* EditorSelection: ranges sorted and disjoint (an empty range never touches
\* a neighbour); the direction of a range matters for the main range only.
IsSelection(sel) ==
  /\ sel.mainIndex \in 1..Len(sel.ranges)
  /\ \A i \in 1..Len(sel.ranges) :
        i # sel.mainIndex => sel.ranges[i].anchor <= sel.ranges[i].head
  /\ \A i \in 1..(Len(sel.ranges) - 1) :
        LET a == sel.ranges[i]
            b == sel.ranges[i + 1]
        IN  \/ RangeTo(a) < RangeFrom(b)
            \/ /\ RangeTo(a) = RangeFrom(b)
               /\ RangeFrom(a) < RangeTo(a)
               /\ RangeFrom(b) < RangeTo(b)

Selections ==
  UNION { { sel \in [ranges : [1..k -> SelRanges], mainIndex : 1..k] : IsSelection(sel) }
          : k \in 1..MaxSelRanges }

Cursor(c) == [ranges |-> << [anchor |-> c, head |-> c] >>, mainIndex |-> 1]

\* The text a parser would have produced the tree from: delimiters at both
\* ends of every node ($ for inline, $$ for display), "x" elsewhere.
IsDelimiter(node, offset) ==
  IF node.name = "InlineLatex"
  THEN offset = node.from \/ offset = node.to - 1
  ELSE /\ node.from <= offset /\ offset < node.to
       /\ (offset <= node.from + 1 \/ offset >= node.to - 2)

SourceText(tree) ==
  [i \in 1..DocLen |->
     IF \E k \in 1..Len(tree) : IsDelimiter(tree[k], i - 1) THEN "$" ELSE "x"]

(***************************************************************************)
(* State of the plugin and of the editor views it is attached to.          *)
(***************************************************************************)
VARIABLES
  variant,        \* "dom" (latex.ts) or "document" (part_000)
  state,          \* view.state of each view: doc, tree, selection
  visibleRanges,  \* view.visibleRanges of each view
  plugin,         \* per view: "none", "active" (constructed) or "destroyed"
  decorations,    \* this.decorations of each view's plugin instance
  listeners,      \* views whose listeners are installed, in registration order
  isDragging,     \* the flag closed over by latexPlugin
  dragEndTimeout, \* the timer handle closed over by latexPlugin, 0 for null
  timers,         \* pending setTimeout callbacks, in firing order
  katex,          \* the typesetting library: the outcome of render per input
  currentPage,    \* client.currentPage
  rendered,       \* per view: the widgets the editor has drawn, with their DOM
  clicked,        \* the last click on a widget: the event, what was dispatched
  last            \* history: the step that led to this state

vars == << variant, state, visibleRanges, plugin, decorations, listeners,
           isDragging, dragEndTimeout, timers, katex, currentPage, rendered,
           clicked, last >>

Variants == {"dom", "document"}
Views == {1, 2}

\* ViewUpdate flags: docChanged, viewportChanged, selectionSet, and
\* syntaxTree(update.startState) !== syntaxTree(update.state).
Flags == [docChanged : BOOLEAN, viewportChanged : BOOLEAN,
          selectionSet : BOOLEAN, treeChanged : BOOLEAN]

NoFlags == [docChanged |-> FALSE, viewportChanged |-> FALSE,
            selectionSet |-> FALSE, treeChanged |-> FALSE]

Step(op, v, flags, rebuilds, scheduled, cleared) ==
  [op |-> op, view |-> v, flags |-> flags, dragging |-> isDragging,
   rebuilds |-> rebuilds, scheduled |-> scheduled, cleared |-> cleared]

(***************************************************************************)
(* Editor states of the controller specification: two documents with their *)
(* trees (the tree may lag behind and be empty), two viewports, three      *)
(* selections.                                                             *)
(***************************************************************************)
InlineDoc == << "x", "$", "x", "$", "x", "x", "x" >>
InlineTree == << [name |-> "InlineLatex", from |-> 1, to |-> 4] >>
DisplayDoc == << "$", "$", "x", "$", "$", "x", "x" >>
DisplayTree == << [name |-> "DisplayLatex", from |-> 0, to |-> 5] >>

HostTexts == { [doc |-> InlineDoc, tree |-> InlineTree],
               [doc |-> InlineDoc, tree |-> << >>],
               [doc |-> DisplayDoc, tree |-> DisplayTree],
               [doc |-> DisplayDoc, tree |-> << >>] }

HostVisibleRanges == { << [from |-> 0, to |-> 7] >>, << [from |-> 6, to |-> 7] >> }

HostSelections == { Cursor(6), Cursor(2),
                    [ranges |-> << [anchor |-> 6, head |-> 3] >>, mainIndex |-> 1] }

EditorState(doc, tree, selection) ==
  [doc |-> doc, tree |-> tree, selection |-> selection]

HostStates ==
  { EditorState(t.doc, t.tree, sel) : t \in HostTexts, sel \in HostSelections }

\* The editor state of a view no specification constructs a plugin for.
Unused == EditorState(InlineDoc, << >>, Cursor(6))

(***************************************************************************)
(* The plugin: update, the timers, the listeners.                          *)
(***************************************************************************)
\* A variant of update that rebuilds on every flagged update, drag or not.
updateRebuildsWhileDragging(dragging, f) ==
  f.docChanged \/ f.viewportChanged \/ f.selectionSet \/ f.treeChanged

\* update(update) of latex.ts: does it call createLatexDecorations?
updateRebuildsDom(dragging, f) ==
  IF dragging /\ f.selectionSet /\ ~f.docChanged
  THEN FALSE
  ELSE f.docChanged \/ f.viewportChanged \/ f.selectionSet \/ f.treeChanged

\* update(update) of part_000
updateRebuildsDocument(dragging, f) ==
  \/ f.docChanged
  \/ f.viewportChanged
  \/ (f.selectionSet /\ ~dragging)
  \/ f.treeChanged

\* A variant of update that rebuilds on every call.
updateRebuildsAlways(dragging, f) == TRUE

updateRebuilds(dragging, f) ==
  IF variant = "dom" THEN updateRebuildsDom(dragging, f)
  ELSE updateRebuildsDocument(dragging, f)

\* setTimeout: a handle no pending timer has; clearTimeout: drop that timer.
NewTimerId(pending) ==
  CHOOSE id \in 1..(Len(pending) + 1) :
    /\ \A i \in 1..Len(pending) : pending[i].id # id
    /\ \A smaller \in 1..(id - 1) : \E i \in 1..Len(pending) : pending[i].id = smaller

setTimeout(pending, v) == Append(pending, [id |-> NewTimerId(pending), view |-> v])

clearTimeout(pending, id) == SelectSeq(pending, LAMBDA t : t.id # id)

\* handleDragEnd(view) of latex.ts: the timers after the call.
handleDragEnd(pending, handle, v) ==
  setTimeout(IF handle # 0 THEN clearTimeout(pending, handle) ELSE pending, v)

\* The handles of the timers of view v that are pending.
PendingFor(v) == { i \in 1..Len(timers) : timers[i].view = v }

\* The client of the plugin: the spec's host provides the sink of the
\* edit-intent events, so client.dispatchClickEvent is defined.
ClientDispatches == TRUE

Pages == {"index", "other"}

\* The calls of katex.render whose outcome a specification chooses: the
\* formula x in inline mode and the formula y in display mode.
KatexInputs == { << << "x" >>, FALSE >>, << << "y" >>, TRUE >> }

\* The outcome of katex.render for a formula in a display mode; the library
\* is a function of its input.
KatexOutcome(formula, displayMode) ==
  IF << formula, displayMode >> \in KatexInputs
  THEN katex[<< formula, displayMode >>]
  ELSE "ok"

\* The drawn widgets a decoration can keep: those over the same range, once
\* mapped through the change, whose widget compares equal to the new one.
Reusable(old, shift, d) ==
  { k \in 1..Len(old) :
      /\ old[k].from + shift = d.from
      /\ old[k].to + shift = d.to
      /\ compare(old[k].widget, d.widget) }

\* The editor draws a decoration set: a decoration whose widget compares
\* equal to the drawn one keeps the DOM that widget built, with its click
\* listener; for any other toDOM is called.  An exception that escapes toDOM
\* ends the drawing.  An entry names the range, the widget that built the
\* DOM, and the DOM.
RECURSIVE Draw(_, _, _)
Draw(old, shift, decos) ==
  IF decos = << >> THEN << >>
  ELSE LET d == Head(decos)
           keep == Reusable(old, shift, d)
           k == CHOOSE j \in keep : \A m \in keep : j <= m
           built == toDOM(d.widget, KatexOutcome(d.widget.formula, d.widget.kind = "display"))
       IN  IF keep # {}
           THEN << [from |-> d.from, to |-> d.to,
                    widget |-> old[k].widget, dom |-> old[k].dom] >>
                  \o Draw(old, shift, Tail(decos))
           ELSE IF built.returned
           THEN << [from |-> d.from, to |-> d.to,
                    widget |-> d.widget, dom |-> built.dom] >>
                  \o Draw(old, shift, Tail(decos))
           ELSE << >>

\* constructor(view)
Construct(v) ==
  /\ plugin[v] = "none"
  /\ plugin' = [plugin EXCEPT ![v] = "active"]
  /\ decorations' = [decorations EXCEPT
                       ![v] = createLatexDecorations(state[v], visibleRanges[v])]
  /\ rendered' = [rendered EXCEPT
                    ![v] = Draw(<< >>, 0,
                                createLatexDecorations(state[v], visibleRanges[v]))]
  /\ listeners' = Append(listeners, v)
  /\ last' = Step("construct", v, NoFlags, 1, 0, 0)
  /\ UNCHANGED << katex, currentPage, clicked, variant, state, visibleRanges, isDragging, dragEndTimeout, timers >>

\* destroy(): part_000 removes its four document listeners; the class of
\* latex.ts has no destroy method, so its view.dom listeners stay.
Destroy(v) ==
  /\ plugin[v] = "active"
  /\ plugin' = [plugin EXCEPT ![v] = "destroyed"]
  /\ listeners' = IF variant = "document"
                  THEN SelectSeq(listeners, LAMBDA w : w # v)
                  ELSE listeners
  /\ rendered' = [rendered EXCEPT ![v] = << >>]
  /\ last' = Step("destroy", v, NoFlags, 0, 0, 0)
  /\ UNCHANGED << katex, currentPage, clicked, variant, state, visibleRanges, decorations, isDragging,
                  dragEndTimeout, timers >>

\* What a transaction can do: without a document change the text stays, the
\* same tree object has the same nodes, the viewport flag is raised when the
\* visible ranges change, and the selection moves only when it is set or
\* mapped through a document change.
Consistent(v, s, ranges, f) ==
  /\ ~f.docChanged => s.doc = state[v].doc
  /\ ~f.treeChanged => s.tree = state[v].tree
  /\ ~f.viewportChanged => ranges = visibleRanges[v]
  /\ (~f.selectionSet /\ ~f.docChanged) => s.selection = state[v].selection

\* A variant of update that patches the exposed set: the decorations it
\* finds stay, those of the rebuild are added.
UpdateMappedPatching(v, s, ranges, f, shift) ==
  /\ plugin[v] = "active"
  /\ Consistent(v, s, ranges, f)
  /\ state' = [state EXCEPT ![v] = s]
  /\ visibleRanges' = [visibleRanges EXCEPT ![v] = ranges]
  /\ decorations' = [decorations EXCEPT
                       ![v] = IF updateRebuilds(isDragging, f)
                              THEN @ \o createLatexDecorations(s, ranges)
                              ELSE @]
  /\ rendered' = [rendered EXCEPT
                    ![v] = Draw(@, shift,
                                IF updateRebuilds(isDragging, f)
                                THEN decorations[v] \o createLatexDecorations(s, ranges)
                                ELSE decorations[v])]
  /\ last' = Step("update", v, f, IF updateRebuilds(isDragging, f) THEN 1 ELSE 0, 0, 0)
  /\ UNCHANGED << katex, currentPage, clicked, variant, plugin, listeners,
                  isDragging, dragEndTimeout, timers >>

\* update(update): the host applied transactions, updates the plugin and
\* draws its decorations; shift is how far the changes move the drawn
\* widgets.
UpdateMapped(v, s, ranges, f, shift) ==
  /\ plugin[v] = "active"
  /\ Consistent(v, s, ranges, f)
  /\ state' = [state EXCEPT ![v] = s]
  /\ visibleRanges' = [visibleRanges EXCEPT ![v] = ranges]
  /\ decorations' = [decorations EXCEPT
                       ![v] = IF updateRebuilds(isDragging, f)
                              THEN createLatexDecorations(s, ranges)
                              ELSE @]
  /\ rendered' = [rendered EXCEPT
                    ![v] = Draw(@, shift,
                                IF updateRebuilds(isDragging, f)
                                THEN createLatexDecorations(s, ranges)
                                ELSE decorations[v])]
  /\ last' = Step("update", v, f, IF updateRebuilds(isDragging, f) THEN 1 ELSE 0, 0, 0)
  /\ UNCHANGED << katex, currentPage, clicked, variant, plugin, listeners,
                  isDragging, dragEndTimeout, timers >>

\* An update whose changes leave every offset where it was.
Update(v, s, ranges, f) == UpdateMapped(v, s, ranges, f, 0)

(***************************************************************************)
(* latex.ts: listeners on view.dom, one cancellable timer.                 *)
(***************************************************************************)
\* view.dom 'mousedown'
DomMouseDown(v) ==
  /\ variant = "dom"
  /\ isDragging' = IF \E i \in 1..Len(listeners) : listeners[i] = v
                   THEN FALSE ELSE isDragging
  /\ last' = Step("mousedown", v, NoFlags, 0, 0, 0)
  /\ UNCHANGED << katex, currentPage, rendered, clicked, variant, state, visibleRanges, plugin, decorations, listeners,
                  dragEndTimeout, timers >>

\* view.dom 'mousemove'
DomMouseMove(v, buttons) ==
  /\ variant = "dom"
  /\ isDragging' = IF (\E i \in 1..Len(listeners) : listeners[i] = v) /\ buttons # 0
                   THEN TRUE ELSE isDragging
  /\ last' = Step("mousemove", v, NoFlags, 0, 0, 0)
  /\ UNCHANGED << katex, currentPage, rendered, clicked, variant, state, visibleRanges, plugin, decorations, listeners,
                  dragEndTimeout, timers >>

\* The shared effect of the two callers of handleDragEnd.
DomDragEnd(op, v, handled) ==
  LET acts == handled /\ isDragging
      kept == IF dragEndTimeout # 0 THEN clearTimeout(timers, dragEndTimeout) ELSE timers
      next == handleDragEnd(timers, dragEndTimeout, v)
  IN  /\ acts => Len(kept) < MaxTimers
      /\ timers' = IF acts THEN next ELSE timers
      /\ dragEndTimeout' = IF acts THEN next[Len(next)].id ELSE dragEndTimeout
      /\ last' = Step(op, v, NoFlags, 0, IF acts THEN 1 ELSE 0,
                      IF acts THEN Len(timers) - Len(kept) ELSE 0)
      /\ UNCHANGED << katex, currentPage, rendered, clicked, variant, state, visibleRanges, plugin, decorations, listeners,
                      isDragging >>

\* view.dom 'mouseup'
DomMouseUp(v) ==
  /\ variant = "dom"
  /\ DomDragEnd("mouseup", v, \E i \in 1..Len(listeners) : listeners[i] = v)

\* eventHandlers.mouseleave, which the editor calls for a live plugin only
DomMouseLeave(v) ==
  /\ variant = "dom"
  /\ DomDragEnd("mouseleave", v, plugin[v] = "active")

\* A variant of the dispatch that puts the cursor at the start.
DispatchCursorToStart(s) == [s EXCEPT !.selection = Cursor(0)]

\* view.dispatch({}): the editor state after a transaction without changes,
\* selection or effects.
DispatchEmpty(s) == s

\* The timer of handleDragEnd fires: isDragging = false; view.dispatch({}),
\* an empty transaction the plugin is updated with.
DomTimer ==
  /\ variant = "dom"
  /\ timers # << >>
  /\ LET v == Head(timers).view
         rebuilds == plugin[v] = "active" /\ updateRebuilds(FALSE, NoFlags)
     IN  /\ timers' = Tail(timers)
         /\ isDragging' = FALSE
         /\ state' = [state EXCEPT ![v] = DispatchEmpty(@)]
         /\ decorations' = [decorations EXCEPT
                              ![v] = IF rebuilds
                                     THEN createLatexDecorations(state[v], visibleRanges[v])
                                     ELSE @]
         /\ rendered' = [rendered EXCEPT
                           ![v] = IF plugin[v] = "active"
                                  THEN Draw(@, 0,
                                         IF rebuilds
                                         THEN createLatexDecorations(state[v], visibleRanges[v])
                                         ELSE decorations[v])
                                  ELSE @]
         /\ last' = Step("timer", v, NoFlags, IF rebuilds THEN 1 ELSE 0, 0, 0)
  /\ UNCHANGED << katex, currentPage, clicked, variant, visibleRanges, plugin, listeners,
                  dragEndTimeout >>

(***************************************************************************)
(* part_000: listeners on document, one timer per release.                 *)
(***************************************************************************)
\* handleMouseDown / handleTouchStart of one plugin instance
handleMouseDown(dragging) == TRUE

\* handleMouseUp / handleTouchEnd of the instance of view v, on the flag and
\* the pending timers
handleMouseUp(c, v) ==
  IF c.dragging
  THEN [dragging |-> FALSE, timers |-> setTimeout(c.timers, v)]
  ELSE c

\* A document event runs the handler of every registered instance, in the
\* order of registration.
RECURSIVE PressAll(_, _)
PressAll(registered, dragging) ==
  IF registered = << >> THEN dragging
  ELSE PressAll(Tail(registered), handleMouseDown(dragging))

RECURSIVE ReleaseAll(_, _)
ReleaseAll(registered, c) ==
  IF registered = << >> THEN c
  ELSE ReleaseAll(Tail(registered), handleMouseUp(c, Head(registered)))

\* The target of a document event is the view it happened on, 0 when it
\* happened outside every view; no handler reads it.
DocPress(op, target) ==
  /\ variant = "document"
  /\ isDragging' = PressAll(listeners, isDragging)
  /\ last' = Step(op, target, NoFlags, 0, 0, 0)
  /\ UNCHANGED << katex, currentPage, rendered, clicked, variant, state, visibleRanges, plugin, decorations, listeners,
                  dragEndTimeout, timers >>

DocRelease(op, target) ==
  LET after == ReleaseAll(listeners, [dragging |-> isDragging, timers |-> timers])
  IN  /\ variant = "document"
      /\ Len(after.timers) <= MaxTimers
      /\ isDragging' = after.dragging
      /\ timers' = after.timers
      /\ last' = Step(op, target, NoFlags, 0, Len(after.timers) - Len(timers), 0)
      /\ UNCHANGED << katex, currentPage, rendered, clicked, variant, state, visibleRanges, plugin, decorations, listeners,
                      dragEndTimeout >>

\* document 'mousedown', 'mouseup', 'touchstart', 'touchend'
DocMouseDown(target) == DocPress("mousedown", target)
DocMouseUp(target) == DocRelease("mouseup", target)
DocTouchStart(target) == DocPress("touchstart", target)
DocTouchEnd(target) == DocRelease("touchend", target)

\* A timer of handleMouseUp / handleTouchEnd fires:
\* this.decorations = createLatexDecorations(view, client); view.update([]),
\* an update without transactions the plugin is updated with when it is live.
DocTimer ==
  /\ variant = "document"
  /\ timers # << >>
  /\ LET v == Head(timers).view
         again == plugin[v] = "active" /\ updateRebuilds(isDragging, NoFlags)
     IN  /\ timers' = Tail(timers)
         /\ decorations' = [decorations EXCEPT
                              ![v] = createLatexDecorations(state[v], visibleRanges[v])]
         /\ rendered' = [rendered EXCEPT
                           ![v] = IF plugin[v] = "active"
                                  THEN Draw(@, 0,
                                         createLatexDecorations(state[v], visibleRanges[v]))
                                  ELSE @]
         /\ last' = Step("timer", v, NoFlags, IF again THEN 2 ELSE 1, 0, 0)
  /\ UNCHANGED << katex, currentPage, clicked, variant, state, visibleRanges, plugin, listeners, isDragging,
                  dragEndTimeout >>

(***************************************************************************)
(* Specifications.                                                         *)
(***************************************************************************)
NoStep == [op |-> "init", view |-> 0, flags |-> NoFlags, dragging |-> FALSE,
           rebuilds |-> 0, scheduled |-> 0, cleared |-> 0]

NoClick == [view |-> 0, target |-> 0,
            event |-> [metaKey |-> FALSE, ctrlKey |-> FALSE, altKey |-> FALSE,
                       defaultPrevented |-> FALSE, propagationStopped |-> FALSE],
            dispatched |-> << >>]

\* The typesetting library renders every formula; the page is "index".
InitHost ==
  /\ katex = [i \in KatexInputs |-> "ok"]
  /\ currentPage = "index"

\* latexPlugin(client) was called, no view has constructed its plugin yet.
InitPlugin ==
  /\ plugin = [v \in Views |-> "none"]
  /\ decorations = [v \in Views |-> << >>]
  /\ listeners = << >>
  /\ isDragging = FALSE
  /\ dragEndTimeout = 0
  /\ timers = << >>
  /\ rendered = [v \in Views |-> << >>]
  /\ clicked = NoClick
  /\ last = NoStep

\* One editor view, either version of the plugin.
Init ==
  /\ variant \in Variants
  /\ \E s \in HostStates, ranges \in HostVisibleRanges :
        /\ state = [v \in Views |-> IF v = 1 THEN s ELSE Unused]
        /\ visibleRanges = [v \in Views |-> IF v = 1 THEN ranges ELSE << >>]
  /\ InitHost
  /\ InitPlugin

HostUpdate(v) ==
  \E s \in HostStates, ranges \in HostVisibleRanges, f \in Flags : Update(v, s, ranges, f)

ViewNext(v) ==
  \/ Construct(v)
  \/ Destroy(v)
  \/ HostUpdate(v)
  \/ DomMouseDown(v)
  \/ \E buttons \in {0, 1} : DomMouseMove(v, buttons)
  \/ DomMouseUp(v)
  \/ DomMouseLeave(v)

\* A document event happens on a view or outside every view.
DocNext(targets) ==
  \/ \E target \in targets : DocMouseDown(target)
  \/ \E target \in targets : DocMouseUp(target)
  \/ \E target \in targets : DocTouchStart(target)
  \/ \E target \in targets : DocTouchEnd(target)

Next ==
  \/ ViewNext(1)
  \/ DomTimer
  \/ DocNext({0, 1})
  \/ DocTimer

Spec == Init /\ [][Next]_vars

\* Two editor views configured with the extension one call of
\* latexPlugin(client) returned: each view constructs its own instance of the
\* class, the instances share isDragging and dragEndTimeout.  The views show
\* the same page; an update moves the selection of one view or edits it.
TwoViewStates ==
  { EditorState(InlineDoc, InlineTree, sel) : sel \in {Cursor(6), Cursor(2)} }

TwoViewUpdate(v) ==
  \E s \in TwoViewStates, f \in Flags : Update(v, s, visibleRanges[v], f)

InitTwoViews ==
  /\ variant \in Variants
  /\ state = [v \in Views |-> EditorState(InlineDoc, InlineTree, Cursor(6))]
  /\ visibleRanges = [v \in Views |-> << [from |-> 0, to |-> 7] >>]
  /\ InitHost
  /\ InitPlugin

TwoViewNext(v) ==
  \/ Construct(v)
  \/ Destroy(v)
  \/ TwoViewUpdate(v)
  \/ DomMouseDown(v)
  \/ \E buttons \in {0, 1} : DomMouseMove(v, buttons)
  \/ DomMouseUp(v)
  \/ DomMouseLeave(v)

NextTwoViews ==
  \/ \E v \in Views : TwoViewNext(v)
  \/ DomTimer
  \/ DocNext({0} \cup Views)
  \/ DocTimer

SpecTwoViews == InitTwoViews /\ [][NextTwoViews]_vars

\* A click on the i-th drawn widget of view v runs the listener its toDOM
\* installed.
Click(v, i, e) ==
  /\ i \in 1..Len(rendered[v])
  /\ LET result == onClick(rendered[v][i].widget, ClientDispatches, currentPage, e)
     IN  clicked' = [view |-> v, target |-> i, input |-> e,
                     event |-> result.event, dispatched |-> result.dispatched]
  /\ last' = Step("click", v, NoFlags, 0, 0, 0)
  /\ UNCHANGED << variant, state, visibleRanges, plugin, decorations, listeners,
                  isDragging, dragEndTimeout, timers, katex, currentPage, rendered >>

\* The client shows the document under another page name.
Navigate(page) ==
  /\ page # currentPage
  /\ currentPage' = page
  /\ last' = Step("navigate", 0, NoFlags, 0, 0, 0)
  /\ UNCHANGED << variant, state, visibleRanges, plugin, decorations, listeners,
                  isDragging, dragEndTimeout, timers, katex, rendered, clicked >>

\* The document of the widget specification: an inline formula x, a display
\* formula y and an inline formula y, the cursor at the end, all of it
\* visible.
WidgetDoc == << "$", "x", "$", "x", "$", "$", "y", "$", "$", "x", "$", "y", "$", "x" >>
WidgetTree == << [name |-> "InlineLatex", from |-> 0, to |-> 3],
                 [name |-> "DisplayLatex", from |-> 4, to |-> 9],
                 [name |-> "InlineLatex", from |-> 10, to |-> 13] >>

ShiftRange(r, shift) == [anchor |-> r.anchor + shift, head |-> r.head + shift]

\* The editor state after one character was typed at offset 0: the text,
\* the nodes of the new tree and the selection, all one offset further.
InsertedAtStart(s) ==
  EditorState(<< "x" >> \o s.doc,
              [k \in 1..Len(s.tree) |->
                 [s.tree[k] EXCEPT !.from = @ + 1, !.to = @ + 1]],
              [s.selection EXCEPT
                 !.ranges = [k \in 1..Len(s.selection.ranges) |->
                               ShiftRange(s.selection.ranges[k], 1)]])

DocChange == [docChanged |-> TRUE, viewportChanged |-> TRUE,
              selectionSet |-> FALSE, treeChanged |-> TRUE]

\* The user types a character at the start of the document.
InsertAtStart(v) ==
  /\ Len(state[v].doc) < Len(WidgetDoc) + MaxEdits
  /\ UpdateMapped(v, InsertedAtStart(state[v]),
                  << [from |-> 0, to |-> Len(state[v].doc) + 1] >>, DocChange, 1)

\* The user puts the cursor into the first formula or at the end.
MoveCursor(v) ==
  \E c \in {state[v].tree[1].from + 1, Len(state[v].doc)} :
     Update(v, [state[v] EXCEPT !.selection = Cursor(c)], visibleRanges[v],
            [docChanged |-> FALSE, viewportChanged |-> FALSE,
             selectionSet |-> TRUE, treeChanged |-> FALSE])

InitWidgets ==
  /\ variant = "dom"
  /\ state = [v \in Views |->
                IF v = 1 THEN EditorState(WidgetDoc, WidgetTree, Cursor(Len(WidgetDoc)))
                ELSE Unused]
  /\ visibleRanges = [v \in Views |->
                        IF v = 1 THEN << [from |-> 0, to |-> Len(WidgetDoc)] >> ELSE << >>]
  /\ katex \in [KatexInputs -> Outcomes]
  /\ currentPage = "index"
  /\ InitPlugin

NextWidgets ==
  \/ Construct(1)
  \/ Destroy(1)
  \/ InsertAtStart(1)
  \/ MoveCursor(1)
  \/ \E i \in 1..Len(WidgetTree), e \in MouseEvents : Click(1, i, e)
  \/ \E page \in Pages : Navigate(page)

SpecWidgets == InitWidgets /\ [][NextWidgets]_vars

\* The builder alone: any tree on its source text, and either any visible
\* ranges around a cursor, or any selection in a wholly visible document; the
\* constructor builds the decoration set.
WhollyVisible == << [from |-> 0, to |-> DocLen] >>

BuildInput(tree, ranges, sel) ==
  /\ state = [v \in Views |->
                IF v = 1 THEN EditorState(SourceText(tree), tree, sel) ELSE Unused]
  /\ visibleRanges = [v \in Views |-> IF v = 1 THEN ranges ELSE << >>]

InitBuild ==
  /\ variant = "dom"
  /\ \/ \E tree \in Trees, ranges \in VisibleRangeSets, c \in Pos :
           BuildInput(tree, ranges, Cursor(c))
     \/ \E tree \in Trees, sel \in Selections :
           BuildInput(tree, WhollyVisible, sel)
  /\ InitHost
  /\ InitPlugin

NextBuild == Construct(1)

SpecBuild == InitBuild /\ [][NextBuild]_vars

\* The builder on any text: any document of TextLen characters, any one
\* node over it, wholly visible, the cursor anywhere.
InitText ==
  /\ variant = "dom"
  /\ \E doc \in [1..TextLen -> Chars], tree \in TreesIn(TextLen, 1), c \in 0..TextLen :
        /\ state = [v \in Views |->
                      IF v = 1 THEN EditorState(doc, tree, Cursor(c)) ELSE Unused]
        /\ visibleRanges = [v \in Views |->
                              IF v = 1 THEN << [from |-> 0, to |-> TextLen] >> ELSE << >>]
  /\ InitHost
  /\ InitPlugin

SpecText == InitText /\ [][NextBuild]_vars

(***************************************************************************)
(* Properties.  They are stated on the editor state and the decoration set *)
(* of view 1, in the terms of the specification.                           *)
(***************************************************************************)
Built(v) == plugin[v] = "active"

NodesOf(v) == { state[v].tree[i] : i \in 1..Len(state[v].tree) }

CursorOf(v) == state[v].selection.ranges[state[v].selection.mainIndex].head

\* The decorations that cover exactly the range of node n.
DecorationsAt(v, n) ==
  { i \in 1..Len(decorations[v]) :
      decorations[v][i].from = n.from /\ decorations[v][i].to = n.to }

IntersectsVisible(v, n) ==
  \E i \in 1..Len(visibleRanges[v]) :
     n.from <= visibleRanges[v][i].to /\ n.to >= visibleRanges[v][i].from

CursorTouches(v, n) == n.from <= CursorOf(v) /\ CursorOf(v) <= n.to

SelectionOverlaps(v, n) ==
  \E i \in 1..Len(state[v].selection.ranges) :
     LET r == state[v].selection.ranges[i]
     IN  Min(r.anchor, r.head) < n.to /\ Max(r.anchor, r.head) > n.from

IsLive(v, n) == CursorTouches(v, n) \/ SelectionOverlaps(v, n)

\* The text of node n carries its delimiters: $...$ or $$...$$.
Delimited(v, n) ==
  LET doc == state[v].doc
      width == IF n.name = "InlineLatex" THEN 1 ELSE 2
  IN  /\ n.to <= Len(doc)
      /\ n.to - n.from >= 2 * width
      /\ \A k \in 0..(width - 1) : doc[n.from + 1 + k] = "$" /\ doc[n.to - k] = "$"

\* The text of node n without its delimiters.
Stripped(v, n) ==
  LET width == IF n.name = "InlineLatex" THEN 1 ELSE 2
  IN  [k \in 1..(n.to - n.from - 2 * width) |-> state[v].doc[n.from + width + k]]

\* C1: after a rebuild, every formula node that intersects the visible
\* ranges and is not live has exactly one decoration over [from, to), and
\* the formula of its widget is the text of the node without its delimiters,
\* whatever the number of visible ranges.  (Stated for the nodes whose text
\* carries its delimiters.)
C1_ExactlyOneDecoration ==
  Built(1) =>
    \A n \in NodesOf(1) :
       (IntersectsVisible(1, n) /\ ~IsLive(1, n) /\ Delimited(1, n)) =>
          /\ Cardinality(DecorationsAt(1, n)) = 1
          /\ \A i \in DecorationsAt(1, n) :
                decorations[1][i].widget.formula = Stripped(1, n)

\* C2: a formula node with from <= primary cursor <= to, both ends
\* inclusive, has no decoration in the set createLatexDecorations returns.
C2_CursorInsideUndecorated ==
  Built(1) =>
    \A n \in NodesOf(1) : CursorTouches(1, n) => DecorationsAt(1, n) = {}

\* The cursor sits exactly at the end of a node that nothing else makes
\* live, the node is undecorated, and another node of the tree is decorated.
C2_Witness ==
  /\ Built(1)
  /\ \E n \in NodesOf(1) :
        /\ CursorOf(1) = n.to
        /\ ~SelectionOverlaps(1, n)
        /\ DecorationsAt(1, n) = {}
        /\ \E m \in NodesOf(1) : m # n /\ DecorationsAt(1, m) # {}

\* C3: a formula node that some selection range overlaps (selFrom < to and
\* selTo > from) has no decoration, for every range of the selection and not
\* the main one only.
C3_SelectedUndecorated ==
  Built(1) =>
    \A n \in NodesOf(1) : SelectionOverlaps(1, n) => DecorationsAt(1, n) = {}

\* A range that is not the main one, and not the first, overlaps a node the
\* cursor is away from; the node is undecorated and another one is decorated.
C3_Witness ==
  /\ Built(1)
  /\ state[1].selection.mainIndex = 1
  /\ \E n \in NodesOf(1) :
        /\ ~CursorTouches(1, n)
        /\ LET r == state[1].selection.ranges[Len(state[1].selection.ranges)]
           IN  /\ Len(state[1].selection.ranges) > 1
               /\ r.anchor < n.to /\ r.head > n.from
        /\ DecorationsAt(1, n) = {}
        /\ \E m \in NodesOf(1) : m # n /\ DecorationsAt(1, m) # {}

SelectionOnly == [docChanged |-> FALSE, viewportChanged |-> FALSE,
                  selectionSet |-> TRUE, treeChanged |-> FALSE]

PointerEvents == {"mousedown", "mousemove", "mouseup", "mouseleave",
                  "touchstart", "touchend"}

Current(v) == createLatexDecorations(state[v], visibleRanges[v])

\* C4: while the tracker is Dragging, an update whose only change is the
\* selection (same document, same visible ranges, same tree) leaves the
\* exposed decoration set as it was.
C4_DragSelectionKeepsDecorations ==
  [][ (last'.op = "update" /\ isDragging /\ last'.flags = SelectionOnly)
        => decorations'[last'.view] = decorations[last'.view] ]_vars

\* A selection-only update arrived during a drag and the exposed set is not
\* the one a rebuild would have produced.
C4_Witness ==
  /\ last.op = "update"
  /\ last.dragging
  /\ last.flags = SelectionOnly
  /\ decorations[last.view] # Current(last.view)

\* C5: the end of a drag causes exactly one rebuild, and it happens when the
\* deferred delay elapses: the timer callback of a live plugin rebuilds the
\* decoration set once, not zero times and not twice.
C5_OneRebuildPerDragEnd ==
  (last.op = "timer" /\ Built(last.view)) => last.rebuilds = 1

\* C6: once the delay after a drag has elapsed, the exposed decoration set
\* is what createLatexDecorations yields for the current document, tree,
\* visible ranges and selection.
C6_SettledDecorationsCurrent ==
  (last.op = "timer" /\ Built(last.view)) => decorations[last.view] = Current(last.view)

\* C7: an update rebuilds the decoration set exactly when the document, the
\* visible range or the tree identity changed (whatever the drag state and
\* the selection), or the selection was set while the tracker is Idle.
C7_UpdateRebuildRule ==
  last.op = "update" =>
    (last.rebuilds > 0 <=>
       \/ last.flags.docChanged
       \/ last.flags.viewportChanged
       \/ last.flags.treeChanged
       \/ (last.flags.selectionSet /\ ~last.dragging))

\* C8: after the plugin of a view is disposed no deferred rebuild runs for
\* it: no timer of the view is left pending and no timer callback runs.
C8_NoRebuildAfterDisposal ==
  \A v \in Views :
     plugin[v] = "destroyed" =>
        /\ PendingFor(v) = {}
        /\ ~(last.op = "timer" /\ last.view = v)

\* C9: the listeners installed at construction are removed at disposal:
\* with every plugin disposed, a pointer or touch event neither changes the
\* drag state nor schedules a rebuild.
C9_ListenersRemoved ==
  /\ \A v \in Views :
        plugin[v] = "destroyed" => \A i \in 1..Len(listeners) : listeners[i] # v
  /\ (last.op \in PointerEvents /\ \A v \in Views : plugin[v] # "active")
        => (isDragging = last.dragging /\ last.scheduled = 0)

\* C10: at most one deferred rebuild timer is pending per view.
C10_OnePendingTimer ==
  \A v \in Views : Cardinality(PendingFor(v)) <= 1

\* The handles of the pending timers that will rebuild view v.
TimersOf(pending, v) == { pending[i].id : i \in { j \in 1..Len(pending) : pending[j].view = v } }

\* C11: with two views alive, the drag state and the pending timer of a view
\* are its own: a press, move, release or leave that happened on another
\* view, or outside both, leaves unchanged whether a selection-only update
\* of this view rebuilds, cancels none of its pending timers and schedules
\* none for it.
C11_ViewsIndependent ==
  [][ \A b \in Views :
        (/\ last'.op \in PointerEvents
         /\ last'.view # b
         /\ \A v \in Views : plugin[v] = "active")
        => /\ updateRebuilds(isDragging', SelectionOnly)
                = updateRebuilds(isDragging, SelectionOnly)
           /\ TimersOf(timers', b) = TimersOf(timers, b) ]_vars

\* The number of delimiter characters at each end of a span of this kind.
Width(kind) == IF kind = "inline" THEN 1 ELSE 2

\* The span start a click target of a widget of this kind stands for.
SpanStart(kind, pos) == pos - Width(kind)

\* A span long enough to hold its delimiters: $formula$ or $$formula$$.
HoldsDelimiters(d) == d.to - d.from >= 2 * Width(d.widget.kind)

\* C12: in a freshly built set the click target of every widget is from+1
\* for an inline span and from+2 for a display span, [from, to) being the
\* range of its decoration; the start of the span is recovered from the
\* target and the kind, and the target lies strictly inside a span that
\* holds its delimiters.
C12_ClickTargetInsideSpan ==
  Built(1) =>
    \A i \in 1..Len(decorations[1]) :
       LET d == decorations[1][i]
       IN  /\ d.widget.pos = d.from + (IF d.widget.kind = "inline" THEN 1 ELSE 2)
           /\ SpanStart(d.widget.kind, d.widget.pos) = d.from
           /\ HoldsDelimiters(d) => (d.from < d.widget.pos /\ d.widget.pos < d.to)

\* A display span that does not start the document is decorated, with its
\* click target two characters past its start.
C12_Witness ==
  /\ Built(1)
  /\ \E i \in 1..Len(decorations[1]) :
        LET d == decorations[1][i]
        IN  /\ d.widget.kind = "display"
            /\ d.from > 0
            /\ d.widget.pos = d.from + 2
            /\ d.widget.pos < d.to

\* The outcome the typesetting call has for the widget of a drawn entry.
OutcomeOf(r) == KatexOutcome(r.widget.formula, r.widget.kind = "display")

\* The typeset output an element shows: the library's nodes among its
\* children and the children of its child elements.
TypesetIn(el) ==
  { el.children[i] : i \in { j \in 1..Len(el.children) : "katex" \in DOMAIN el.children[j] } }
  \cup UNION { { el.children[i].children[k] :
                   k \in { m \in 1..Len(el.children[i].children) :
                             "katex" \in DOMAIN el.children[i].children[m] } }
               : i \in { j \in 1..Len(el.children) : "tag" \in DOMAIN el.children[j] } }

\* C13: when the typesetting call throws, toDOM still returns; the element
\* holds the raw text of the span ($formula$ or $$formula$$) and nothing
\* else, no partial typeset output, and has the class sb-latex-error; the
\* widgets whose call does not throw are drawn typeset, without that class.
C13_RenderFailureFallsBack ==
  Built(1) =>
    /\ Len(rendered[1]) = Len(decorations[1])
    /\ \A i \in 1..Len(rendered[1]) :
         LET r == rendered[1][i]
         IN  IF OutcomeOf(r) = "ok"
             THEN /\ "sb-latex-error" \notin r.dom.classes
                  /\ TypesetIn(r.dom) =
                       { KatexNode(r.widget.formula, r.widget.kind = "display", TRUE) }
             ELSE /\ r.dom.children =
                       << TextNode(sliceString(state[1].doc, r.from, r.to)) >>
                  /\ "sb-latex-error" \in r.dom.classes
                  /\ TypesetIn(r.dom) = {}

\* The library threw halfway through the inline formula and typeset the
\* display formula: both widgets are drawn, the first one as raw text.
C13_Witness ==
  /\ Built(1)
  /\ Len(rendered[1]) = Len(WidgetTree)
  /\ rendered[1][1].widget.kind = "inline"
  /\ OutcomeOf(rendered[1][1]) = "throwsPartial"
  /\ "sb-latex-error" \in rendered[1][1].dom.classes
  /\ OutcomeOf(rendered[1][2]) = "ok"
  /\ "sb-latex-error" \notin rendered[1][2].dom.classes

\* C14: a click on a drawn widget dispatches exactly one edit-intent event
\* to the client; it carries the target offset of the widget, the page the
\* client shows at the time of the click, and the meta, ctrl and alt keys of
\* the click; the click has its default prevented and its propagation
\* stopped.
C14_ClickDispatchesOneEvent ==
  last.op = "click" =>
    /\ Len(clicked.dispatched) = 1
    /\ clicked.dispatched[1] =
         [pos |-> rendered[clicked.view][clicked.target].widget.pos,
          page |-> currentPage,
          metaKey |-> clicked.input.metaKey,
          ctrlKey |-> clicked.input.ctrlKey,
          altKey |-> clicked.input.altKey]
    /\ clicked.event.defaultPrevented
    /\ clicked.event.propagationStopped

\* The display widget was clicked with the meta key alone, after the client
\* went to another page than the one the widget was drawn on.
C14_Witness ==
  /\ last.op = "click"
  /\ rendered[clicked.view][clicked.target].widget.kind = "display"
  /\ clicked.input.metaKey /\ ~clicked.input.ctrlKey /\ ~clicked.input.altKey
  /\ currentPage = "other"
  /\ Len(clicked.dispatched) = 1
  /\ clicked.dispatched[1].page = "other"
  /\ clicked.dispatched[1].metaKey

\* The widgets of view 1: those of its decoration set and those that built
\* the DOM it shows.
WidgetsOf ==
  { decorations[1][i].widget : i \in 1..Len(decorations[1]) }
  \cup { rendered[1][i].widget : i \in 1..Len(rendered[1]) }

\* C15: two widgets of the same variant compare equal exactly when their
\* formulas are the same text, whatever their recorded positions; eq is
\* reflexive, symmetric and transitive.  The widgets compared are those of
\* a view before and after a step that draws it, as the editor compares
\* them.
C15_EqByFormula ==
  [][ last'.op \in {"construct", "update", "destroy"} =>
        LET before == WidgetsOf
            after == WidgetsOf'
        IN  /\ \A a \in before : eq(a, a)
            /\ \A a \in before, b \in after :
                  /\ a.kind = b.kind => (eq(a, b) <=> a.formula = b.formula)
                  /\ eq(a, b) => eq(b, a)
                  /\ eq(a, b) => \A c \in after : eq(b, c) => eq(a, c) ]_vars

\* Two inline widgets with the same formula and different positions, and two
\* inline widgets with different formulas.
C15_Witness ==
  /\ \E a \in WidgetsOf, b \in WidgetsOf :
        a.kind = "inline" /\ b.kind = "inline" /\ a.formula = b.formula /\ a.pos # b.pos
  /\ \E a \in WidgetsOf, b \in WidgetsOf :
        a.kind = "inline" /\ b.kind = "inline" /\ a.formula # b.formula

\* C16: no step of the plugin changes the document text or the selection:
\* construction, disposal, the pointer and touch handlers, the timer
\* callbacks and the rebuilds they run leave both as they were, and an
\* update leaves the text as it was unless its transactions changed the
\* document, the selection unless they set it or changed the document.
C16_TextAndSelectionUntouched ==
  [][ \A v \in Views :
        /\ last'.op # "update" =>
              /\ state'[v].doc = state[v].doc
              /\ state'[v].selection = state[v].selection
        /\ (last'.op = "update" /\ ~last'.flags.docChanged) =>
              state'[v].doc = state[v].doc
        /\ (last'.op = "update" /\ ~last'.flags.docChanged /\ ~last'.flags.selectionSet) =>
              state'[v].selection = state[v].selection ]_vars

\* The drag-end timer of latex.ts fired for a live plugin that shows a
\* decoration, with the cursor away from the start of the document.
C16_Witness ==
  /\ last.op = "timer"
  /\ variant = "dom"
  /\ Built(last.view)
  /\ decorations[last.view] # << >>
  /\ CursorOf(last.view) # 0

\* Node n is a span: an inline node, or a display node whose text the
\* pattern matches.
IsSpan(v, n) ==
  \/ n.name = "InlineLatex"
  \/ n.name = "DisplayLatex" /\ DisplayMatches(sliceString(state[v].doc, n.from, n.to))

\* Range r of the selection is not empty and touches node n at one of its
\* boundaries without overlapping it.
TouchesBoundary(r, n) ==
  /\ RangeFrom(r) < RangeTo(r)
  /\ RangeTo(r) = n.from \/ RangeFrom(r) = n.to

\* No selection range overlaps node n, and every range whose end lies in
\* [from, to] is a non-empty range that touches a boundary of n.
OnlyTouched(v, n) ==
  /\ ~SelectionOverlaps(v, n)
  /\ \A i \in 1..Len(state[v].selection.ranges) :
        LET r == state[v].selection.ranges[i]
        IN  (\/ (n.from <= r.anchor /\ r.anchor <= n.to)
             \/ (n.from <= r.head /\ r.head <= n.to)) => TouchesBoundary(r, n)

\* C17 as stated: a span that non-empty selection ranges only touch at a
\* boundary is decorated, whichever end of such a range is its head.
C17_TouchingSelectionDecorated ==
  Built(1) =>
    \A n \in NodesOf(1) :
       (IsSpan(1, n) /\ OnlyTouched(1, n)
          /\ \E i \in 1..Len(state[1].selection.ranges) :
                TouchesBoundary(state[1].selection.ranges[i], n))
       => DecorationsAt(1, n) # {}

\* C17 as amended: a span that non-empty selection ranges only touch at a
\* boundary is decorated when the head of the main range is not on a
\* boundary of the span, that is when the touching range is not the main
\* one or touches the span with its anchor.
C17_TouchingAwayFromHeadDecorated ==
  Built(1) =>
    \A n \in NodesOf(1) :
       (IsSpan(1, n) /\ OnlyTouched(1, n) /\ ~CursorTouches(1, n)
          /\ \E i \in 1..Len(state[1].selection.ranges) :
                TouchesBoundary(state[1].selection.ranges[i], n))
       => DecorationsAt(1, n) # {}

\* The main range is not empty and touches a span with its anchor, the head
\* pointing away; the span is decorated.
C17_Witness ==
  /\ Built(1)
  /\ \E n \in NodesOf(1) :
        LET main == state[1].selection.ranges[state[1].selection.mainIndex]
        IN  /\ main.anchor = n.to
            /\ main.head > n.to
            /\ DecorationsAt(1, n) # {}

\* C18: through document edits and rebuilds in which the editor keeps the
\* DOM of a widget that compares equal to the new one, a click on the drawn
\* output of a span dispatches an offset inside the current range of the
\* span: from+1 of the current from for an inline span, from+2 for a display
\* span.
C18_ClickTargetFollowsSpan ==
  Built(1) =>
    \A i \in 1..Len(rendered[1]) :
       LET r == rendered[1][i]
           sent == onClick(r.widget, ClientDispatches, currentPage,
                           CHOOSE e \in MouseEvents : TRUE).dispatched
       IN  \A k \in 1..Len(sent) :
              /\ sent[k].pos = r.from + Width(r.widget.kind)
              /\ r.from < sent[k].pos /\ sent[k].pos < r.to

\* A press or release reached a listener of the plugin: in latex.ts the
\* view it happened on has its listeners installed, in part_000 some
\* instance has.
PressHandled ==
  IF variant = "dom"
  THEN \E i \in 1..Len(listeners) : listeners[i] = last.view
  ELSE listeners # << >>

\* C19: from Idle, a pointer-down or a touch-start within the tracked scope
\* puts the tracker in Dragging, so that a selection-only update arriving
\* after the press does not rebuild.
C19_PressStartsDragging ==
  (last.op \in {"mousedown", "touchstart"} /\ ~last.dragging /\ PressHandled)
    => /\ isDragging
       /\ ~updateRebuilds(isDragging, SelectionOnly)

\* C20: a pointer-up or touch-end that a listener handles while the tracker
\* is Dragging puts the tracker in Idle, rebuilds nothing in its own turn
\* and schedules the deferred rebuild, which runs when the timer fires.
C20_ReleaseDefersRebuild ==
  (last.op \in {"mouseup", "touchend"} /\ last.dragging /\ PressHandled)
    => /\ ~isDragging
       /\ last.rebuilds = 0
       /\ last.scheduled >= 1

\* A pointer-leave event in part_000: the constructor registers mousedown,
\* mouseup, touchstart and touchend on document and nothing for a leave, and
\* the plugin spec has no eventHandlers, so no code runs.
DocMouseLeave(target) ==
  /\ variant = "document"
  /\ last' = Step("mouseleave", target, NoFlags, 0, 0, 0)
  /\ UNCHANGED << variant, state, visibleRanges, plugin, decorations, listeners,
                  isDragging, dragEndTimeout, timers, katex, currentPage, rendered,
                  clicked >>

\* One editor view with every pointer event of either version, the leave
\* events included.  The event loop runs a pending timer callback sooner or
\* later; nothing makes the user press, move or release.
NextLeave ==
  \/ TwoViewNext(1)
  \/ DomTimer
  \/ DocNext({0, 1})
  \/ \E target \in {0, 1} : DocMouseLeave(target)
  \/ DocTimer

SpecLeave ==
  /\ InitTwoViews
  /\ [][NextLeave]_vars
  /\ WF_vars(DomTimer)
  /\ WF_vars(DocTimer)

\* The pointer left the editor of a live plugin while the tracker was
\* Dragging.
LeftWhileDragging ==
  /\ last.op = "mouseleave"
  /\ last.view # 0
  /\ last.dragging
  /\ Built(last.view)

\* C21: whenever the pointer leaves the tracked surface while the tracker is
\* Dragging, the leave schedules the deferred rebuild as a drag end does, and
\* the tracker is Idle again some time later, whether or not a release is
\* ever delivered.
C21_LeaveEndsDrag ==
  /\ [](LeftWhileDragging => last.scheduled >= 1)
  /\ (LeftWhileDragging ~> ~isDragging)

\* The builder on any text with several nodes: any document of TextLen
\* delimiter and letter characters, any tree over it, wholly visible, the
\* cursor at the end of the document.
TextChars == {"$", "x"}

InitNodes ==
  /\ variant = "dom"
  /\ \E doc \in [1..TextLen -> TextChars], tree \in TreesIn(TextLen, MaxNodes) :
        /\ state = [v \in Views |->
                      IF v = 1 THEN EditorState(doc, tree, Cursor(TextLen)) ELSE Unused]
        /\ visibleRanges = [v \in Views |->
                              IF v = 1 THEN << [from |-> 0, to |-> TextLen] >> ELSE << >>]
  /\ InitHost
  /\ InitPlugin

SpecNodes == InitNodes /\ [][NextBuild]_vars

\* The text of node n.
TextOf(v, n) == sliceString(state[v].doc, n.from, n.to)

\* A text that starts with two delimiter characters and ends with two
\* delimiter characters.
StartsAndEnds(text) ==
  /\ Len(text) >= 2
  /\ text[1] = "$" /\ text[2] = "$"
  /\ text[Len(text) - 1] = "$" /\ text[Len(text)] = "$"

\* C22: a display node whose text does not start with two delimiter
\* characters and end with two delimiter characters gets no decoration, the
\* rebuild completes, and every other node of the tree is classified as
\* usual: the spans among them that are not live are decorated.
C22_UnmatchedDisplayRejected ==
  Built(1) =>
    \A n \in NodesOf(1) :
       (n.name = "DisplayLatex" /\ ~StartsAndEnds(TextOf(1, n))) =>
          /\ DecorationsAt(1, n) = {}
          /\ \A m \in NodesOf(1) :
                (m # n /\ IsSpan(1, m) /\ ~IsLive(1, m)) => DecorationsAt(1, m) # {}

\* A display node that is not live opens with two delimiter characters, lacks
\* the closing ones and is undecorated; the node after it in the same tree is
\* decorated.
C22_Witness ==
  /\ Built(1)
  /\ Len(state[1].tree) >= 2
  /\ LET n == state[1].tree[1]
         m == state[1].tree[2]
     IN  /\ n.name = "DisplayLatex"
         /\ ~IsLive(1, n)
         /\ n.to - n.from >= 3
         /\ TextOf(1, n)[1] = "$" /\ TextOf(1, n)[2] = "$"
         /\ ~StartsAndEnds(TextOf(1, n))
         /\ DecorationsAt(1, n) = {}
         /\ DecorationsAt(1, m) # {}

\* C23: the formula of the widget of an inline node is the document slice
\* (from+1, to-1); the pattern matches the text of a display node exactly
\* when the text has at least four characters, starts with two delimiter
\* characters and ends with two, whatever lies between them (newlines and
\* delimiter characters included), a display node that is not live is
\* decorated exactly then, and the formula of its widget is the document
\* slice (from+2, to-2).
C23_StrippingAgreesWithSlicing ==
  Built(1) =>
    \A n \in NodesOf(1) :
       LET text == TextOf(1, n)
           wellDelimited == Len(text) >= 4 /\ StartsAndEnds(text)
       IN  /\ \A i \in DecorationsAt(1, n) :
                 decorations[1][i].widget.formula = Stripped(1, n)
           /\ n.name = "InlineLatex" =>
                 (DecorationsAt(1, n) # {} <=> ~IsLive(1, n))
           /\ n.name = "DisplayLatex" =>
                 /\ DisplayMatches(text) <=> wellDelimited
                 /\ DecorationsAt(1, n) # {} <=> (~IsLive(1, n) /\ wellDelimited)

\* A display node over "$$", a newline, "$$" that does not start the
\* document is decorated, and the formula of its widget is the newline.
C23_Witness ==
  /\ Built(1)
  /\ \E i \in 1..Len(decorations[1]) :
        /\ decorations[1][i].widget.kind = "display"
        /\ decorations[1][i].from > 0
        /\ decorations[1][i].widget.formula = << "\n" >>

\* C24: no two decorations of a built set overlap or coincide: each ends
\* where the next one starts or before, whatever the number of visible
\* ranges a formula node intersects.  (Every tree of the specification has
\* pairwise non-overlapping nodes.)
C24_NoOverlappingDecorations ==
  Built(1) =>
    \A i \in 1..Len(decorations[1]), j \in 1..Len(decorations[1]) :
       i < j => decorations[1][i].to <= decorations[1][j].from

\* Node n lies wholly outside every visible range: it ends before the range
\* starts or starts after the range ends.
WhollyOutside(v, n) ==
  \A i \in 1..Len(visibleRanges[v]) :
     n.to < visibleRanges[v][i].from \/ n.from > visibleRanges[v][i].to

\* C25: every decoration of a built set covers a formula node that
\* intersects a visible range (a node that reaches the boundary of a range
\* counts, as the tree iteration enters it), and a formula node wholly
\* outside every visible range has no decoration, live or not.
C25_DecorationsWithinVisibleRanges ==
  Built(1) =>
    /\ \A i \in 1..Len(decorations[1]) :
          \E n \in NodesOf(1) :
             /\ n.from = decorations[1][i].from
             /\ n.to = decorations[1][i].to
             /\ IntersectsVisible(1, n)
    /\ \A n \in NodesOf(1) : WhollyOutside(1, n) => DecorationsAt(1, n) = {}

\* A span that is not live lies wholly outside the visible ranges and is
\* undecorated, while a node inside a visible range is decorated.
C25_Witness ==
  /\ Built(1)
  /\ \E n \in NodesOf(1) :
        /\ IsSpan(1, n)
        /\ ~IsLive(1, n)
        /\ WhollyOutside(1, n)
        /\ DecorationsAt(1, n) = {}
        /\ \E m \in NodesOf(1) : DecorationsAt(1, m) # {}

\* C26: a rebuild recomputes the whole set from the current inputs: after
\* every step that rebuilds, whatever steps came before it and whatever the
\* set was, the exposed set of the view is the value createLatexDecorations
\* has for the current document, tree, visible ranges and selection, so two
\* rebuilds with these unchanged expose equal sets.
C26_RebuildDependsOnCurrentInputs ==
  last.rebuilds > 0 => decorations[last.view] = Current(last.view)

\* An update rebuilt the set during a drag, with a decoration to show, after
\* a drag had already been under way.
C26_Witness ==
  /\ last.op = "update"
  /\ last.rebuilds > 0
  /\ last.dragging
  /\ decorations[last.view] # << >>

\* C27: an update in which neither the document, nor the visible ranges,
\* nor the selection, nor the tree changed rebuilds nothing and leaves the
\* exposed set as it was, Dragging or Idle; this holds as well for the
\* update a timer callback causes: after the empty dispatch of latex.ts the
\* set is the one before, after view.update([]) of part_000 it is the one
\* the callback had just assigned, rebuilt once.
C27_UnchangedUpdateKeepsSet ==
  [][ \A v \in Views :
        /\ (last'.op = "update" /\ last'.view = v /\ last'.flags = NoFlags) =>
              /\ last'.rebuilds = 0
              /\ decorations'[v] = decorations[v]
        /\ (last'.op = "timer" /\ last'.view = v /\ variant = "dom") =>
              /\ last'.rebuilds = 0
              /\ decorations'[v] = decorations[v]
        /\ (last'.op = "timer" /\ last'.view = v /\ variant = "document") =>
              last'.rebuilds = 1 ]_vars

\* An update without any change arrived during a drag, while the exposed
\* set was not the one a rebuild would have produced.
C27_Witness ==
  /\ last.op = "update"
  /\ last.flags = NoFlags
  /\ last.dragging
  /\ isDragging
  /\ decorations[last.view] # Current(last.view)

\* Range r is empty and sits exactly at a boundary of node n.
CaretAtBoundary(r, n) ==
  /\ r.anchor = r.head
  /\ r.head = n.from \/ r.head = n.to

\* Range r is empty and sits strictly inside node n.
CaretInside(r, n) ==
  /\ r.anchor = r.head
  /\ n.from < r.head /\ r.head < n.to

\* Range r neither overlaps node n nor reaches one of its boundaries.
ClearOf(r, n) == RangeTo(r) < n.from \/ RangeFrom(r) > n.to

\* C28: a span with an empty range of the selection that is not the main
\* one exactly at its from or its to, every other range being clear of the
\* span, is decorated; a span with an empty range strictly inside it, main
\* or not, is not decorated; and a span with the head of the main range at
\* its from or its to is not decorated.
C28_OnlyMainHeadInclusive ==
  Built(1) =>
    LET sel == state[1].selection
        others == (1..Len(sel.ranges)) \ {sel.mainIndex}
    IN  \A n \in NodesOf(1) :
           IsSpan(1, n) =>
              /\ (/\ \E i \in others : CaretAtBoundary(sel.ranges[i], n)
                  /\ \A i \in 1..Len(sel.ranges) :
                        \/ i \in others /\ CaretAtBoundary(sel.ranges[i], n)
                        \/ ClearOf(sel.ranges[i], n))
                 => DecorationsAt(1, n) # {}
              /\ (\E i \in 1..Len(sel.ranges) : CaretInside(sel.ranges[i], n))
                 => DecorationsAt(1, n) = {}
              /\ (sel.ranges[sel.mainIndex].head \in {n.from, n.to})
                 => DecorationsAt(1, n) = {}

\* An empty range that is not the main one sits at the end of a span, the
\* main range is a cursor elsewhere, and the span is decorated.
C28_Witness ==
  /\ Built(1)
  /\ Len(state[1].selection.ranges) = 2
  /\ state[1].selection.mainIndex = 2
  /\ \E n \in NodesOf(1) :
        /\ CaretAtBoundary(state[1].selection.ranges[1], n)
        /\ state[1].selection.ranges[1].head = n.to
        /\ ClearOf(state[1].selection.ranges[2], n)
        /\ DecorationsAt(1, n) # {}

====
